---------------------------- MODULE Spec2Model ----------------------------
(***************************************************************************)
(* SceneManager (Source/SceneManager.cpp): the texture registry, the       *)
(* material registry, the shader-state setters and the PrepareScene /      *)
(* RenderScene call sequence.                                              *)
(*                                                                         *)
(* Floats are written as fixed-point integers in units of 10^-6            *)
(* (0.25f is 250000).  Strings are TLA+ strings.                           *)
(***************************************************************************)
EXTENDS Integers, Sequences, FiniteSets, TLC

VARIABLES
    m_pShaderManager,   \* "NULL" or "attached"
    m_loadedTextures,   \* int: number of registered textures
    m_textureIDs,       \* memory at m_textureIDs[i]: [tag, ID]; i >= MaxTextureUnits is outside the array
    m_objectMaterials,  \* std::vector<OBJECT_MATERIAL>
    m_basicMeshes,      \* the set of meshes ShapeMeshes has loaded
    disk,               \* what stbi_load finds: file name -> channel count, 0 = cannot be decoded
    glNames,            \* number of texture names glGenTextures has handed out
    glUnits,            \* texture units activated by glActiveTexture: <<ID bound at unit 0, ...>>
    shader,             \* the shader program's uniforms: name -> value
    crashed,            \* TRUE once the NULL shader manager has been dereferenced
    pc,                 \* position in the PrepareScene / RenderScene run
    frames,             \* number of RenderScene calls started
    last,               \* the most recent call that returned a value: its name, arguments and result
    calls,              \* the scene run: per operation, how many calls it has made
    budget,             \* a free-standing caller: per bounded operation, how many calls it has made
    registered,         \* history: the tags of the successful CreateGLTexture calls, in order
    pushed,             \* history: the uniforms a value has been pushed to
    since               \* history: the calls RenderScene has made since its last draw call (or its start)

vars == <<m_pShaderManager, m_loadedTextures, m_textureIDs, m_objectMaterials,
          m_basicMeshes, disk, glNames, glUnits, shader, pushed, crashed, pc, frames,
          last, calls, budget, registered, since>>

objectVars == <<m_pShaderManager, m_loadedTextures, m_textureIDs, m_objectMaterials, m_basicMeshes>>

---------------------------------------------------------------------------
(* Bounds of the model *)

\* calls of CreateGLTexture, LoadSceneTextures and DestroyGLTextures a caller makes
MaxTextureCalls == 5
\* calls of push_back and DefineObjectMaterials a caller makes
MaxMaterialCalls == 3
\* calls of CreateGLTexture and LoadSceneTextures made before the shader setters
MaxSetupCalls == 3
\* RenderScene calls (frames) explored in the scene run
MaxFrames == 2
\* calls of LoadSceneTextures, and of DefineObjectMaterials, made among the
\* shader-state operations
MaxLoads == 1

---------------------------------------------------------------------------
(* Program constants *)

\* TEXTURE_INFO m_textureIDs[16]: the capacity of the texture table
MaxTextureUnits == 16

\* m_loadedTextures when the object is constructed.  The constructor body does
\* not assign it; the registry is taken to start empty, as the class
\* declaration (not part of this source file) is documented to leave it.
NoTextures == 0

g_ModelName == "model"
g_ColorValueName == "objectColor"
g_TextureValueName == "objectTexture"
g_UseTextureName == "bUseTexture"
g_UseLightingName == "bUseLighting"

\* the six CreateGLTexture calls of LoadSceneTextures, in order
SceneTextures ==
    << [filename |-> "../../Utilities/textures/ceramic.jpg",   tag |-> "ceramic"],
       [filename |-> "../../Utilities/textures/porcelain.jpg", tag |-> "porcelain"],
       [filename |-> "../../Utilities/textures/stainless.jpg", tag |-> "metal"],
       [filename |-> "../../Utilities/textures/paper.jpg",     tag |-> "paper"],
       [filename |-> "../../Utilities/textures/plastic.jpg",   tag |-> "plastic"],
       [filename |-> "../../Utilities/textures/drywall.jpg",   tag |-> "drywall"] >>

SceneFiles == { SceneTextures[i].filename : i \in 1..Len(SceneTextures) }
SceneTags  == { SceneTextures[i].tag : i \in 1..Len(SceneTextures) }

---------------------------------------------------------------------------
(* Inputs *)

\* files a caller may pass to CreateGLTexture besides the scene's six
TestFiles == {"rgb.jpg", "rgba.png", "gray.png", "absent.png"}
Files == SceneFiles \cup TestFiles

\* tags a caller may pass
Tags == {"A", "ceramic", "missing"}
CreateTags == {"A", "ceramic"}

\* what memory outside the texture table may hold where a tag is read
Garbage == "<garbage>"

\* the files on disk: name -> channel count reported by stbi_load (0: not decodable)
DiskOf(absent, gray) ==
    [f \in Files |->
        CASE f \in absent      -> 0
          [] f \in gray        -> 1
          [] f = "rgba.png"    -> 4
          [] f = "gray.png"    -> 1
          [] f = "absent.png"  -> 0
          [] OTHER             -> 3]

Disks ==
    { DiskOf({}, {}),
      DiskOf({"../../Utilities/textures/paper.jpg"}, {"../../Utilities/textures/drywall.jpg"}) }


---------------------------------------------------------------------------
(* The state after construction *)

\* highest index of m_textureIDs the explored calls can touch
MemTop == MaxTextureCalls * Len(SceneTextures)

\* what lies in memory that was never written: a default-constructed tag inside
\* the table, anything outside it.  An ID is never read before it is written
\* (every read is at an index below m_loadedTextures), so 0 stands for it.
FreshEntry(index) ==
    [tag |-> IF index < MaxTextureUnits THEN "" ELSE Garbage, ID |-> 0]

\* the shader program's uniforms, all 0 after linking
LightFields ==
    {"position", "ambientColor", "diffuseColor", "specularColor",
     "specularIntensity", "focalStrength"}

LightName(i, field) == "lightSources[" \o ToString(i) \o "]." \o field

LightUniforms == { LightName(i, f) : i \in 0..3, f \in LightFields }

MaterialUniforms ==
    {"material.ambientColor", "material.ambientStrength", "material.diffuseColor",
     "material.specularColor", "material.shininess"}

UniformNames ==
    {g_ModelName, g_ColorValueName, g_TextureValueName, g_UseTextureName,
     g_UseLightingName, "UVscale"} \cup MaterialUniforms \cup LightUniforms

Vec3Uniforms ==
    {"material.ambientColor", "material.diffuseColor", "material.specularColor"}
        \cup { LightName(i, f) : i \in 0..3,
               f \in {"position", "ambientColor", "diffuseColor", "specularColor"} }

UnsetUniform(name) ==
    CASE name = g_ModelName         -> << >>
      [] name = g_ColorValueName    -> <<0, 0, 0, 0>>
      [] name = "UVscale"           -> <<0, 0>>
      [] name = g_UseLightingName   -> FALSE
      [] name \in Vec3Uniforms      -> <<0, 0, 0>>
      [] OTHER                      -> 0

NoCalls ==
    [op \in {"CreateGLTexture", "BindGLTextures", "SetShaderTexture", "Draw"} |-> 0]

NoBudget ==
    [op \in {"CreateGLTexture", "LoadSceneTextures", "DestroyGLTextures",
             "DefineMaterial", "DefineObjectMaterials"} |-> 0]

Init ==
    /\ m_pShaderManager \in {"NULL", "attached"}
    /\ m_loadedTextures = NoTextures
    /\ m_textureIDs = [i \in 0..MemTop |-> FreshEntry(i)]
    /\ m_objectMaterials = << >>
    /\ m_basicMeshes = {}
    /\ disk \in Disks
    /\ glNames = 0
    /\ glUnits = << >>
    /\ shader = [n \in UniformNames |-> UnsetUniform(n)]
    /\ crashed = FALSE
    /\ pc = 1
    /\ frames = 0
    /\ last = [op |-> "SceneManager"]
    /\ calls = NoCalls
    /\ budget = NoBudget
    /\ registered = << >>
    /\ pushed = {}
    /\ since = {}

Count(op) == [calls EXCEPT ![op] = @ + 1]
Spend(op) == [budget EXCEPT ![op] = @ + 1]

\* a call made by a free-standing caller, outside the scene run
Free(op) == budget' = Spend(op) /\ UNCHANGED <<pc, frames, calls, since>>
TextureCalls ==
    budget["CreateGLTexture"] + budget["LoadSceneTextures"] + budget["DestroyGLTextures"]
MaterialCalls == budget["DefineMaterial"] + budget["DefineObjectMaterials"]
Unbounded == UNCHANGED <<pc, frames, calls, budget, since>>

---------------------------------------------------------------------------
(* Texture registry *)

stbi_load(filename) == disk[filename]

\* the RGBA branch forgotten
SupportedChannels_RGBOnly == {3}

\* colorChannels == 3, else colorChannels == 4, else "Not implemented"
SupportedChannels == {3, 4}

TexState ==
    [loaded |-> m_loadedTextures, ids |-> m_textureIDs,
     names |-> glNames, registered |-> registered]

\* memory after the store m_textureIDs[index] = entry.  A store at an index
\* outside the table is undefined behaviour: what a later read at that index
\* finds is the stored entry (kept) or not.
Store(ids, index, entry, kept) ==
    IF index \notin DOMAIN ids THEN ids
    ELSE IF index < MaxTextureUnits \/ kept THEN [ids EXCEPT ![index] = entry]
    ELSE [ids EXCEPT ![index] = [tag |-> Garbage, ID |-> 0]]

\* CreateGLTexture(filename, tag) on texture state t: the return value and the
\* state it leaves
CreateGLTextureOn(t, filename, tag, kept) ==
    LET colorChannels == stbi_load(filename)
        textureID == t.names + 1
    IN  IF colorChannels = 0
        THEN [ret |-> FALSE, t |-> t]
        ELSE IF colorChannels \notin SupportedChannels
        THEN [ret |-> FALSE, t |-> [t EXCEPT !.names = textureID]]
        ELSE [ret |-> TRUE,
              t |-> [loaded |-> t.loaded + 1,
                     ids |-> Store(t.ids, t.loaded, [tag |-> tag, ID |-> textureID], kept),
                     names |-> textureID,
                     registered |-> Append(t.registered, tag)]]

SetTexState(t) ==
    /\ m_loadedTextures' = t.loaded
    /\ m_textureIDs' = t.ids
    /\ glNames' = t.names
    /\ registered' = t.registered

\* glActiveTexture(GL_TEXTURE0 + i); glBindTexture(..., ids[i].ID) for i < loaded
BindGLTexturesOn(units, ids, loaded) ==
    LET n == IF Len(units) > loaded THEN Len(units) ELSE loaded
    IN  [u \in 1..n |-> IF u <= loaded THEN ids[u - 1].ID ELSE units[u]]

RECURSIVE FindTextureIDLoop(_, _)
FindTextureIDLoop(index, tag) ==
    IF index < m_loadedTextures
    THEN IF m_textureIDs[index].tag = tag
         THEN m_textureIDs[index].ID
         ELSE FindTextureIDLoop(index + 1, tag)
    ELSE -1

FindTextureID(tag) == FindTextureIDLoop(0, tag)

RECURSIVE FindTextureSlotLoop(_, _)
FindTextureSlotLoop(index, tag) ==
    IF index < m_loadedTextures
    THEN IF m_textureIDs[index].tag = tag
         THEN index
         ELSE FindTextureSlotLoop(index + 1, tag)
    ELSE -1

\* the lookup returning the texture's ID where the slot index is meant
FindTextureSlot_AsID(tag) == FindTextureID(tag)

FindTextureSlot(tag) == FindTextureSlotLoop(0, tag)

\* glGenTextures(1, &m_textureIDs[i].ID) for i = from .. loaded - 1
RECURSIVE DestroyLoop(_, _, _)
DestroyLoop(t, i, kept) ==
    IF i < t.loaded
    THEN DestroyLoop([t EXCEPT !.names = @ + 1,
                               !.ids = Store(t.ids, i, [t.ids[i] EXCEPT !.ID = t.names + 1], kept)],
                     i + 1, kept)
    ELSE t

\* the six CreateGLTexture calls of LoadSceneTextures from call i on
RECURSIVE LoadLoop(_, _, _)
LoadLoop(t, i, kept) ==
    IF i <= Len(SceneTextures)
    THEN LoadLoop(CreateGLTextureOn(t, SceneTextures[i].filename, SceneTextures[i].tag, kept).t,
                  i + 1, kept)
    ELSE t

Alive == ~crashed

\* whether a store at this index is outside the table: only then is there a choice
Outcomes(index) == IF index >= MaxTextureUnits THEN BOOLEAN ELSE {TRUE}

CreateGLTexture(filename, tag) ==
    /\ Alive
    /\ \E kept \in Outcomes(m_loadedTextures) :
          LET r == CreateGLTextureOn(TexState, filename, tag, kept)
          IN  /\ SetTexState(r.t)
              /\ last' = [op |-> "CreateGLTexture", file |-> filename, ret |-> r.ret]
    /\ UNCHANGED <<m_pShaderManager, m_objectMaterials, m_basicMeshes, disk, glUnits,
                   shader, pushed, crashed>>

BindGLTextures ==
    /\ Alive
    /\ glUnits' = BindGLTexturesOn(glUnits, m_textureIDs, m_loadedTextures)
    /\ UNCHANGED <<objectVars, disk, glNames, shader, pushed, crashed, last, registered>>

DestroyGLTextures ==
    /\ Alive
    /\ \E kept \in Outcomes(m_loadedTextures - 1) :
          SetTexState(DestroyLoop(TexState, 0, kept))
    /\ UNCHANGED <<m_pShaderManager, m_objectMaterials, m_basicMeshes, disk, glUnits,
                   shader, pushed, crashed, last>>

LoadSceneTextures ==
    /\ Alive
    /\ \E kept \in Outcomes(m_loadedTextures + Len(SceneTextures) - 1) :
          LET t == LoadLoop(TexState, 1, kept)
          IN  /\ SetTexState(t)
              /\ glUnits' = BindGLTexturesOn(glUnits, t.ids, t.loaded)
    /\ UNCHANGED <<m_pShaderManager, m_objectMaterials, m_basicMeshes, disk,
                   shader, pushed, crashed, last>>

---------------------------------------------------------------------------
(* The texture registry driven by any caller *)

CallCreateGLTexture ==
    \E filename \in TestFiles, tag \in CreateTags :
        /\ TextureCalls < MaxTextureCalls
        /\ CreateGLTexture(filename, tag)
        /\ Free("CreateGLTexture")

CallLoadSceneTextures ==
    /\ TextureCalls < MaxTextureCalls
    /\ LoadSceneTextures
    /\ Free("LoadSceneTextures")

CallBindGLTextures == BindGLTextures /\ Unbounded

CallDestroyGLTextures ==
    /\ TextureCalls < MaxTextureCalls
    /\ DestroyGLTextures
    /\ Free("DestroyGLTextures")

TextureNext ==
    \/ CallCreateGLTexture
    \/ CallLoadSceneTextures
    \/ CallBindGLTextures
    \/ CallDestroyGLTextures

InitTextures == Init /\ m_pShaderManager = "attached"

SpecTextures == InitTextures /\ [][TextureNext]_vars

---------------------------------------------------------------------------
(* Texture registry: properties *)

AllTags == Tags \cup SceneTags

\* 0-based position of the first successful registration of tag, -1 if none
FirstRegistration(tag) ==
    IF \E i \in 1..Len(registered) : registered[i] = tag
    THEN (CHOOSE i \in 1..Len(registered) :
             /\ registered[i] = tag
             /\ \A j \in 1..(i - 1) : registered[j] # tag) - 1
    ELSE -1

IsCreateStep == budget'["CreateGLTexture"] = budget["CreateGLTexture"] + 1
IsDestroyStep == budget'["DestroyGLTextures"] = budget["DestroyGLTextures"] + 1

\* C4: after any sequence of CreateGLTexture calls, FindTextureSlot(tag) is the
\* 0-based position of the first successful registration of tag among the N
\* successful registrations (so it lies in [0, N)), and -1 for a tag never
\* successfully registered.
C4_SlotIsFirstRegistration ==
    /\ Len(registered) = m_loadedTextures
    /\ \A tag \in AllTags :
          /\ FindTextureSlot(tag) = FirstRegistration(tag)
          /\ FindTextureSlot(tag) < m_loadedTextures

\* C5: CreateGLTexture returns true and stores exactly one entry, at index
\* m_loadedTextures, then adds 1 to the count, when the image has 3 or 4
\* channels; otherwise it returns false and leaves the count and every entry
\* as they were.
C5_CreateRegistersIffSupported ==
    [][ \A tag \in CreateTags :
          (IsCreateStep /\ CreateGLTexture(last'.file, tag)) =>
          LET channels == disk[last'.file]
              index == m_loadedTextures
          IN  IF channels = 3 \/ channels = 4
              THEN /\ last'.ret = TRUE
                   /\ m_loadedTextures' = index + 1
                   /\ registered' = Append(registered, tag)
                   /\ \A i \in DOMAIN m_textureIDs :
                         i # index => m_textureIDs'[i] = m_textureIDs[i]
                   /\ index < MaxTextureUnits =>
                         m_textureIDs'[index] = [tag |-> tag, ID |-> glNames']
              ELSE /\ last'.ret = FALSE
                   /\ m_loadedTextures' = m_loadedTextures
                   /\ m_textureIDs' = m_textureIDs
                   /\ registered' = registered ]_vars

C5_Witness ==
    /\ last.op = "CreateGLTexture"
    /\ last.ret = TRUE
    /\ disk[last.file] = 4
    /\ m_loadedTextures >= 2
    /\ m_loadedTextures <= MaxTextureUnits
    /\ m_textureIDs[m_loadedTextures - 1].tag = "A"

\* C6: after DestroyGLTextures the registry is empty: the count is 0 and
\* FindTextureSlot and FindTextureID return -1 for every tag.
C6_DestroyEmptiesRegistry ==
    [][ IsDestroyStep =>
          /\ m_loadedTextures' = 0
          /\ \A tag \in AllTags :
                FindTextureSlot(tag)' = -1 /\ FindTextureID(tag)' = -1 ]_vars

\* C7: the number of registered textures is at most 16, so every store into
\* the table is at an index in [0, 16), and every unit activated by
\* BindGLTextures and every slot FindTextureSlot returns lies in [0, 16).
C7_WithinSixteenUnits ==
    /\ m_loadedTextures <= MaxTextureUnits
    /\ Len(glUnits) <= MaxTextureUnits
    /\ \A tag \in AllTags : FindTextureSlot(tag) < MaxTextureUnits

\* C8: no two entries at indices below m_loadedTextures carry the same tag.
C8_TagsUnique ==
    \A i, j \in 0..(m_loadedTextures - 1) :
        i # j => m_textureIDs[i].tag # m_textureIDs[j].tag

---------------------------------------------------------------------------
(* Material registry *)

Vec3(x) == <<x, x, x>>

OBJECT_MATERIAL(tag, ambC, ambS, difC, specC, shin) ==
    [tag |-> tag,
     ambientColor |-> Vec3(ambC), ambientStrength |-> ambS,
     diffuseColor |-> Vec3(difC), specularColor |-> Vec3(specC),
     shininess |-> shin]

\* DefineObjectMaterials: ambC = .1, ambS = .75, difC = .25, specC = .75, shin = 16.0
SceneMaterial(tag) == OBJECT_MATERIAL(tag, 100000, 750000, 250000, 750000, 16000000)

SceneMaterials ==
    << SceneMaterial("ceramic"), SceneMaterial("porcelain"), SceneMaterial("metal"),
       SceneMaterial("paper"), SceneMaterial("plastic"), SceneMaterial("drywall") >>

\* materials a caller may define besides the scene's six
OtherMaterial(tag) == OBJECT_MATERIAL(tag, 200000, 300000, 400000, 500000, 32000000)
DefineInputs ==
    { SceneMaterial(tag) : tag \in CreateTags } \cup { OtherMaterial(tag) : tag \in CreateTags }

\* OBJECT_MATERIAL material; declared without an initializer: its tag is a
\* default-constructed string, its five value fields hold whatever the stack held
Indeterminate ==
    { OtherMaterial(""), OBJECT_MATERIAL("", -1, -1, -1, -1, -1) }

\* the while loop of FindMaterial from index on: the out-parameter it leaves
RECURSIVE FindMaterialLoop_LastMatch(_, _, _)
FindMaterialLoop_LastMatch(index, tag, material) ==
    IF index < Len(m_objectMaterials)
    THEN IF m_objectMaterials[index + 1].tag = tag
         THEN FindMaterialLoop_LastMatch(index + 1, tag,
                  [m_objectMaterials[index + 1] EXCEPT !.tag = material.tag])
         ELSE FindMaterialLoop_LastMatch(index + 1, tag, material)
    ELSE material

RECURSIVE FindMaterialLoop(_, _, _)
FindMaterialLoop(index, tag, material) ==
    IF index < Len(m_objectMaterials)
    THEN IF m_objectMaterials[index + 1].tag = tag
         THEN [material EXCEPT
                  !.ambientColor = m_objectMaterials[index + 1].ambientColor,
                  !.ambientStrength = m_objectMaterials[index + 1].ambientStrength,
                  !.diffuseColor = m_objectMaterials[index + 1].diffuseColor,
                  !.specularColor = m_objectMaterials[index + 1].specularColor,
                  !.shininess = m_objectMaterials[index + 1].shininess]
         ELSE FindMaterialLoop(index + 1, tag, material)
    ELSE material

\* FindMaterial(tag, material): the return value and the out-parameter
FindMaterial(tag, material) ==
    IF Len(m_objectMaterials) = 0
    THEN [ret |-> FALSE, material |-> material]
    ELSE [ret |-> TRUE, material |-> FindMaterialLoop(0, tag, material)]

\* m_pShaderManager->set...Value(name, value) for each name of values.  Through a
\* NULL m_pShaderManager the call dereferences a null pointer and the process dies.
Push(values) ==
    IF m_pShaderManager = "NULL"
    THEN crashed' = TRUE /\ shader' = shader /\ pushed' = pushed
    ELSE /\ crashed' = crashed
         /\ pushed' = pushed \cup DOMAIN values
         /\ shader' = [n \in DOMAIN shader |->
                          IF n \in DOMAIN values THEN values[n] ELSE shader[n]]

MaterialPush(material) ==
    [n \in MaterialUniforms |->
        CASE n = "material.ambientColor"    -> material.ambientColor
          [] n = "material.ambientStrength" -> material.ambientStrength
          [] n = "material.diffuseColor"    -> material.diffuseColor
          [] n = "material.specularColor"   -> material.specularColor
          [] n = "material.shininess"       -> material.shininess]

SetShaderMaterial(materialTag) ==
    /\ Alive
    /\ IF Len(m_objectMaterials) > 0
       THEN \E material \in Indeterminate :
               LET r == FindMaterial(materialTag, material)
               IN  IF r.ret = TRUE
                   THEN Push(MaterialPush(r.material))
                   ELSE UNCHANGED <<shader, pushed, crashed>>
       ELSE UNCHANGED <<shader, pushed, crashed>>
    /\ UNCHANGED <<objectVars, disk, glNames, glUnits, last, registered>>

\* m_objectMaterials.push_back(material)
DefineMaterial(material) ==
    /\ Alive
    /\ m_objectMaterials' = Append(m_objectMaterials, material)
    /\ UNCHANGED <<m_pShaderManager, m_loadedTextures, m_textureIDs, m_basicMeshes,
                   disk, glNames, glUnits, shader, pushed, crashed, last, registered>>

DefineObjectMaterials ==
    /\ Alive
    /\ m_objectMaterials' = m_objectMaterials \o SceneMaterials
    /\ UNCHANGED <<m_pShaderManager, m_loadedTextures, m_textureIDs, m_basicMeshes,
                   disk, glNames, glUnits, shader, pushed, crashed, last, registered>>

---------------------------------------------------------------------------
(* The material registry driven by any caller *)

CallDefineMaterial ==
    \E material \in DefineInputs :
        /\ MaterialCalls < MaxMaterialCalls
        /\ DefineMaterial(material)
        /\ Free("DefineMaterial")

CallDefineObjectMaterials ==
    /\ MaterialCalls < MaxMaterialCalls
    /\ DefineObjectMaterials
    /\ Free("DefineObjectMaterials")

CallFindMaterial ==
    \E tag \in Tags, material \in Indeterminate :
        /\ Alive
        /\ last' = [op |-> "FindMaterial", tag |-> tag, in |-> material,
                    ret |-> FindMaterial(tag, material).ret,
                    out |-> FindMaterial(tag, material).material]
        /\ UNCHANGED <<objectVars, disk, glNames, glUnits, shader, pushed, crashed, registered>>
        /\ Unbounded

CallSetShaderMaterial ==
    \E tag \in Tags : SetShaderMaterial(tag) /\ Unbounded

MaterialNext ==
    \/ CallDefineMaterial
    \/ CallDefineObjectMaterials
    \/ CallFindMaterial
    \/ CallSetShaderMaterial

InitMaterials == Init /\ disk = DiskOf({}, {})

SpecMaterials == InitMaterials /\ [][MaterialNext]_vars

---------------------------------------------------------------------------
(* Material registry: properties *)

Defined(tag) == \E i \in 1..Len(m_objectMaterials) : m_objectMaterials[i].tag = tag

\* the first-defined material carrying tag
FirstDefined(tag) ==
    m_objectMaterials[CHOOSE i \in 1..Len(m_objectMaterials) :
                         /\ m_objectMaterials[i].tag = tag
                         /\ \A j \in 1..(i - 1) : m_objectMaterials[j].tag # tag]

SameValues(a, b) ==
    /\ a.ambientColor = b.ambientColor
    /\ a.ambientStrength = b.ambientStrength
    /\ a.diffuseColor = b.diffuseColor
    /\ a.specularColor = b.specularColor
    /\ a.shininess = b.shininess

IsFindMaterialStep == last' # last /\ last'.op = "FindMaterial"

\* C1: for a tag that matches no defined material, SetShaderMaterial(tag) pushes
\* none of the five material uniforms: the shader's material state after the
\* call equals the state before it.
C1_MissLeavesShaderMaterial ==
    [][ \A tag \in Tags :
          (~Defined(tag) /\ SetShaderMaterial(tag))
              => \A n \in MaterialUniforms : shader'[n] = shader[n] ]_vars

\* C2: FindMaterial returns false for every tag that is not the tag of a defined
\* material, whether the registry is empty or not, and true only when some
\* defined material has that tag.
C2_FindMaterialReportsMiss ==
    [][ IsFindMaterialStep => (last'.ret = TRUE <=> Defined(last'.tag)) ]_vars

\* C3: FindMaterial for a defined tag fills the out-parameter with exactly the
\* five values of the first-defined material carrying that tag, and a later
\* definition never changes what a lookup of an already defined tag yields.
C3_FirstDefinedWins ==
    [][ /\ (IsFindMaterialStep /\ Defined(last'.tag)) =>
              /\ last'.ret = TRUE
              /\ SameValues(last'.out, FirstDefined(last'.tag))
              /\ last'.out.tag = last'.in.tag
        /\ \A tag \in Tags, material \in Indeterminate :
              Defined(tag) =>
                  FindMaterial(tag, material)' = FindMaterial(tag, material) ]_vars

C3_Witness ==
    /\ last.op = "FindMaterial"
    /\ \E i, j \in 1..Len(m_objectMaterials) :
          /\ i < j
          /\ m_objectMaterials[i].tag = last.tag
          /\ m_objectMaterials[j].tag = last.tag
          /\ ~SameValues(m_objectMaterials[i], m_objectMaterials[j])
          /\ SameValues(last.out, m_objectMaterials[i])
          /\ ~SameValues(last.in, last.out)

---------------------------------------------------------------------------
(* Shader state setters *)

\* if (NULL != m_pShaderManager) { m_pShaderManager->set...Value(...) ... }
GuardedPush(values) ==
    IF m_pShaderManager = "NULL"
    THEN UNCHANGED <<shader, pushed, crashed>>
    ELSE Push(values)

Factor(kind, value) == [kind |-> kind, value |-> value]

\* the product applied in the opposite order: scale outermost, translation innermost
SetTransformations_ScaleOutermost(scaleXYZ, XrotationDegrees, YrotationDegrees, ZrotationDegrees, positionXYZ) ==
    /\ Alive
    /\ LET scale == Factor("scale", scaleXYZ)
           rotationX == Factor("rotateX", XrotationDegrees)
           rotationY == Factor("rotateY", YrotationDegrees)
           rotationZ == Factor("rotateZ", ZrotationDegrees)
           translation == Factor("translate", positionXYZ)
           modelView == <<scale, rotationZ, rotationY, rotationX, translation>>
       IN  GuardedPush((g_ModelName :> modelView))
    /\ UNCHANGED <<objectVars, disk, glNames, glUnits, last, registered>>

\* modelView = translation * rotationX * rotationY * rotationZ * scale: the
\* factors of the product, left to right
SetTransformations(scaleXYZ, XrotationDegrees, YrotationDegrees, ZrotationDegrees, positionXYZ) ==
    /\ Alive
    /\ LET scale == Factor("scale", scaleXYZ)
           rotationX == Factor("rotateX", XrotationDegrees)
           rotationY == Factor("rotateY", YrotationDegrees)
           rotationZ == Factor("rotateZ", ZrotationDegrees)
           translation == Factor("translate", positionXYZ)
           modelView == <<translation, rotationX, rotationY, rotationZ, scale>>
       IN  GuardedPush((g_ModelName :> modelView))
    /\ UNCHANGED <<objectVars, disk, glNames, glUnits, last, registered>>

\* setIntValue(g_UseTextureName, false) stores the int 0
SetShaderColor(redColorValue, greenColorValue, blueColorValue, alphaValue) ==
    /\ Alive
    /\ LET currentColor == <<redColorValue, greenColorValue, blueColorValue, alphaValue>>
       IN  GuardedPush((g_UseTextureName :> 0) @@ (g_ColorValueName :> currentColor))
    /\ UNCHANGED <<objectVars, disk, glNames, glUnits, last, registered>>

\* setIntValue(g_UseTextureName, true) stores the int 1
SetShaderTexture(textureTag) ==
    /\ Alive
    /\ LET textureID == FindTextureSlot(textureTag)
       IN  GuardedPush((g_UseTextureName :> 1) @@ (g_TextureValueName :> textureID))
    /\ UNCHANGED <<objectVars, disk, glNames, glUnits, last, registered>>

SetTextureUVScale(u, v) ==
    /\ Alive
    /\ GuardedPush(("UVscale" :> <<u, v>>))
    /\ UNCHANGED <<objectVars, disk, glNames, glUnits, last, registered>>

---------------------------------------------------------------------------
(* The colour / texture selection driven by any caller *)

Colors == { <<1000000, 1000000, 1000000, 1000000>>, <<500000, 500000, 500000, 1000000>> }

SetupCalls == budget["CreateGLTexture"] + budget["LoadSceneTextures"]

SetupCreateGLTexture ==
    \E filename \in {"rgb.jpg", "gray.png"}, tag \in CreateTags :
        /\ SetupCalls < MaxSetupCalls
        /\ CreateGLTexture(filename, tag)
        /\ Free("CreateGLTexture")

SetupLoadSceneTextures ==
    /\ SetupCalls < MaxSetupCalls
    /\ LoadSceneTextures
    /\ Free("LoadSceneTextures")

CallSetShaderTexture ==
    \E tag \in Tags : SetShaderTexture(tag) /\ Unbounded

CallSetShaderColor ==
    \E c \in Colors : SetShaderColor(c[1], c[2], c[3], c[4]) /\ Unbounded

ShaderNext ==
    \/ SetupCreateGLTexture
    \/ SetupLoadSceneTextures
    \/ CallSetShaderTexture
    \/ CallSetShaderColor

SpecShader == Init /\ [][ShaderNext]_vars

\* the first index below m_loadedTextures whose stored tag is tag, -1 if none
StoredSlot(tag) ==
    LET hits == { i \in 0..(m_loadedTextures - 1) : m_textureIDs[i].tag = tag }
    IN  IF hits = {} THEN -1
        ELSE CHOOSE i \in hits : \A j \in hits : i <= j

IsSetShaderTextureStep(tag) == SetShaderTexture(tag) /\ Unbounded
IsSetShaderColorStep == \E c \in Colors : SetShaderColor(c[1], c[2], c[3], c[4]) /\ Unbounded

\* C9: with a shader manager attached, SetShaderTexture(tag) sets bUseTexture
\* to true and objectTexture to the slot of tag, -1 when tag is not in the
\* registry, and raises no failure; SetShaderColor sets bUseTexture to false;
\* no other call changes bUseTexture, so it is true exactly when the most
\* recent of the two was SetShaderTexture.
C9_TextureSelection ==
    [][ m_pShaderManager = "attached" =>
          /\ \A tag \in Tags :
                IsSetShaderTextureStep(tag) =>
                    /\ shader'[g_UseTextureName] = 1
                    /\ shader'[g_TextureValueName] = StoredSlot(tag)
                    /\ ~crashed'
          /\ IsSetShaderColorStep => shader'[g_UseTextureName] = 0
          /\ (~IsSetShaderColorStep /\ \A tag \in Tags : ~IsSetShaderTextureStep(tag)) =>
                shader'[g_UseTextureName] = shader[g_UseTextureName] ]_vars

C9_Witness ==
    /\ m_pShaderManager = "attached"
    /\ shader[g_UseTextureName] = 1
    /\ shader[g_TextureValueName] = StoredSlot("A")
    /\ StoredSlot("A") >= 1
    /\ shader[g_ColorValueName] # <<0, 0, 0, 0>>

---------------------------------------------------------------------------
(* Scene setup *)

\* SetupSceneLights: amb = 0.1, dif = 0.12, H = 6.0, R = 12.0
corners ==
    << <<12000000, 6000000, -12000000>>, <<12000000, 6000000, 12000000>>,
       <<-12000000, 6000000, 12000000>>, <<-12000000, 6000000, -12000000>> >>

FillLight(i) ==
    (LightName(i, "position") :> corners[i + 1])
    @@ (LightName(i, "ambientColor") :> Vec3(100000))
    @@ (LightName(i, "diffuseColor") :> Vec3(120000))
    @@ (LightName(i, "specularColor") :> Vec3(0))
    @@ (LightName(i, "specularIntensity") :> 0)
    @@ (LightName(i, "focalStrength") :> 3000000)

\* slot 3 set up like the three fill lights
GlareLight_AsFill == FillLight(3)

GlareLight ==
    (LightName(3, "position") :> corners[4])
    @@ (LightName(3, "ambientColor") :> Vec3(100000))
    @@ (LightName(3, "diffuseColor") :> Vec3(120000))
    @@ (LightName(3, "specularColor") :> Vec3(250000))
    @@ (LightName(3, "specularIntensity") :> 150000)
    @@ (LightName(3, "focalStrength") :> 25000000)

\* none of the pushes is guarded by a NULL check
SetupSceneLights ==
    /\ Alive
    /\ Push(FillLight(0) @@ FillLight(1) @@ FillLight(2) @@ GlareLight
            @@ (g_UseLightingName :> TRUE))
    /\ UNCHANGED <<objectVars, disk, glNames, glUnits, last, registered>>

\* m_basicMeshes->Load<Shape>Mesh()
LoadMesh(shape) ==
    /\ Alive
    /\ m_basicMeshes' = m_basicMeshes \cup {shape}
    /\ UNCHANGED <<m_pShaderManager, m_loadedTextures, m_textureIDs, m_objectMaterials,
                   disk, glNames, glUnits, shader, pushed, crashed, last, registered>>

\* m_basicMeshes->Draw<Shape>Mesh(): draws with the shader state as it stands
DrawMesh(shape) ==
    /\ Alive
    /\ UNCHANGED <<objectVars, disk, glNames, glUnits, shader, pushed, crashed, last, registered>>

---------------------------------------------------------------------------
(* PrepareScene and RenderScene as the sequence of calls they make *)

Call(op, args) == [op |-> op, args |-> args]

LoadSceneTexturesBody_BindFirst ==
    << Call("BindGLTextures", << >>) >>
    \o [i \in 1..Len(SceneTextures) |->
           Call("CreateGLTexture", <<SceneTextures[i].filename, SceneTextures[i].tag>>)]

LoadSceneTexturesBody ==
    [i \in 1..Len(SceneTextures) |->
        Call("CreateGLTexture", <<SceneTextures[i].filename, SceneTextures[i].tag>>)]
    \o << Call("BindGLTextures", << >>) >>

PrepareSceneBody ==
    LoadSceneTexturesBody
    \o << Call("DefineObjectMaterials", << >>),
          Call("SetupSceneLights", << >>),
          Call("LoadMesh", <<"Box">>),
          Call("LoadMesh", <<"Plane">>),
          Call("LoadMesh", <<"Cylinder">>),
          Call("LoadMesh", <<"Cone">>),
          Call("LoadMesh", <<"Prism">>),
          Call("LoadMesh", <<"Pyramid4">>),
          Call("LoadMesh", <<"Sphere">>),
          Call("LoadMesh", <<"TaperedCylinder">>),
          Call("LoadMesh", <<"Torus">>) >>

\* the calls RenderScene makes for one object; uv is << >> where the code makes
\* no SetTextureUVScale call
Object(scaleXYZ, rx, ry, rz, positionXYZ, tag, uv, shape) ==
    << Call("SetTransformations", <<scaleXYZ, rx, ry, rz, positionXYZ>>),
       Call("SetShaderTexture", <<tag>>),
       Call("SetShaderMaterial", <<tag>>) >>
    \o (IF uv = << >> THEN << >> ELSE << Call("SetTextureUVScale", uv) >>)
    \o << Call("DrawMesh", <<shape>>) >>

\* float positions[24][3]
positions ==
    <<
       <<5537341, 250000, -3064676>>,
       <<5308174, 250000, -2667747>>,
       <<5079008, 250000, -2270819>>,
       <<4849841, 250000, -1873891>>,
       <<4620674, 250000, -1476962>>,
       <<4391508, 250000, -1080034>>,
       <<4162341, 250000, -683105>>,
       <<3933174, 250000, -286177>>,
       <<3704008, 250000, 110752>>,
       <<3474841, 250000, 507680>>,
       <<3245674, 250000, 904609>>,
       <<3016508, 250000, 1301537>>,
       <<2787341, 250000, 1698465>>,
       <<2558174, 250000, 2095394>>,
       <<2329008, 250000, 2492322>>,
       <<2099841, 250000, 2889251>>,
       <<1870674, 250000, 3286179>>,
       <<1641508, 250000, 3683108>>,
       <<1412341, 250000, 4080036>>,
       <<1183174, 250000, 4476964>>,
       <<954008, 250000, 4873893>>,
       <<724841, 250000, 5270821>>,
       <<495674, 250000, 5667750>>,
       <<266508, 250000, 6064678>> >>

RECURSIVE TorusLoop(_)
TorusLoop(i) ==
    IF i < 24
    THEN Object(<<250000, 250000, 250000>>, 0, -30000000, 0, positions[i + 1],
                "plastic", << >>, "Torus") \o TorusLoop(i + 1)
    ELSE << >>

RenderSceneBody ==
    Object(<<20000000, 20000000, 20000000>>, 0, 0, 0, <<0, 0, 0>>,
           "porcelain", <<8000000, 8000000>>, "Plane")
    \o Object(<<4000000, 1000000, 4000000>>, 180000000, 0, 0, <<-5000000, 1000000, 2000000>>,
              "ceramic", << >>, "TaperedCylinder")
    \o Object(<<3000000, 3000000, 3000000>>, 180000000, 0, 0, <<-5000000, 4100000, 2500000>>,
              "ceramic", << >>, "TaperedCylinder")
    \o Object(<<1000000, 1000000, 1000000>>, 0, 10000000, 120000000, <<-6500000, 3000000, 3750000>>,
              "ceramic", << >>, "HalfTorus")
    \o Object(<<6000000, 500000, 11000000>>, 0, -30000000, 0, <<5500000, 250000, 3000000>>,
              "paper", <<2000000, 2000000>>, "Box")
    \o TorusLoop(0)
    \o Object(<<250000, 2000000, 250000>>, 90000000, 35000000, 0, <<5000000, 1000000, 5000000>>,
              "metal", << >>, "Cylinder")
    \o Object(<<250000, 2000000, 250000>>, 90000000, 35000000, 0, <<5000000, 1000000, 3000000>>,
              "plastic", << >>, "Cylinder")
    \o Object(<<250000, 1000000, 250000>>, 270000000, 35000000, 0, <<5000000, 1000000, 3000000>>,
              "plastic", << >>, "Cone")

\* the run: PrepareScene once, then RenderScene once per frame
Program == PrepareSceneBody \o RenderSceneBody \o << Call("return", << >>) >>
RenderStart == Len(PrepareSceneBody) + 1
Done == Len(Program) + 1

At(op) == pc \in 1..Len(Program) /\ Program[pc].op = op
Arg(i) == Program[pc].args[i]

\* the calls made since the last draw call of RenderScene, once this call is made
Since(op) ==
    CASE pc < RenderStart -> since
      [] op = "DrawMesh"  -> {}
      [] OTHER            -> since \cup {op}

Step ==
    /\ pc' = pc + 1
    /\ since' = Since(Program[pc].op)
    /\ UNCHANGED <<frames, budget>>

RunCreateGLTexture ==
    /\ At("CreateGLTexture")
    /\ CreateGLTexture(Arg(1), Arg(2))
    /\ calls' = Count("CreateGLTexture")
    /\ Step

RunBindGLTextures ==
    /\ At("BindGLTextures")
    /\ BindGLTextures
    /\ calls' = Count("BindGLTextures")
    /\ Step

RunDefineObjectMaterials ==
    /\ At("DefineObjectMaterials")
    /\ DefineObjectMaterials
    /\ UNCHANGED calls
    /\ Step

RunSetupSceneLights ==
    /\ At("SetupSceneLights")
    /\ SetupSceneLights
    /\ UNCHANGED calls
    /\ Step

RunLoadMesh ==
    /\ At("LoadMesh")
    /\ LoadMesh(Arg(1))
    /\ UNCHANGED calls
    /\ Step

RunSetTransformations ==
    /\ At("SetTransformations")
    /\ SetTransformations(Arg(1), Arg(2), Arg(3), Arg(4), Arg(5))
    /\ UNCHANGED calls
    /\ Step

RunSetShaderTexture ==
    /\ At("SetShaderTexture")
    /\ SetShaderTexture(Arg(1))
    /\ calls' = Count("SetShaderTexture")
    /\ Step

RunSetShaderMaterial ==
    /\ At("SetShaderMaterial")
    /\ SetShaderMaterial(Arg(1))
    /\ UNCHANGED calls
    /\ Step

RunSetTextureUVScale ==
    /\ At("SetTextureUVScale")
    /\ SetTextureUVScale(Arg(1), Arg(2))
    /\ UNCHANGED calls
    /\ Step

RunDrawMesh ==
    /\ At("DrawMesh")
    /\ DrawMesh(Arg(1))
    /\ calls' = Count("Draw")
    /\ Step

\* RenderScene returns; the render loop calls it again for the next frame
RunReturn ==
    /\ At("return")
    /\ Alive
    /\ frames' = frames + 1
    /\ pc' = IF frames + 1 < MaxFrames THEN RenderStart ELSE Done
    /\ UNCHANGED <<objectVars, disk, glNames, glUnits, shader, pushed, crashed, last, calls,
                   budget, registered, since>>

Next ==
    \/ RunCreateGLTexture
    \/ RunBindGLTextures
    \/ RunDefineObjectMaterials
    \/ RunSetupSceneLights
    \/ RunLoadMesh
    \/ RunSetTransformations
    \/ RunSetShaderTexture
    \/ RunSetShaderMaterial
    \/ RunSetTextureUVScale
    \/ RunDrawMesh
    \/ RunReturn

Spec == Init /\ [][Next]_vars

\* C10: in the run PrepareScene followed by RenderScene, BindGLTextures is
\* called exactly once, after every CreateGLTexture call has returned and
\* before the first mesh draw call or SetShaderTexture call.
C10_BindOnceAfterLoadsBeforeDraws ==
    /\ calls["BindGLTextures"] <= 1
    /\ calls["BindGLTextures"] = 1 => calls["CreateGLTexture"] = Len(SceneTextures)
    /\ (calls["Draw"] > 0 \/ calls["SetShaderTexture"] > 0) =>
          /\ calls["BindGLTextures"] = 1
          /\ calls["CreateGLTexture"] = Len(SceneTextures)
    /\ pc >= RenderStart =>
          calls["BindGLTextures"] = 1 /\ calls["CreateGLTexture"] = Len(SceneTextures)

C10_Witness ==
    /\ pc = Done
    /\ calls["BindGLTextures"] = 1
    /\ calls["CreateGLTexture"] = 6
    /\ calls["Draw"] >= 32
    /\ calls["SetShaderTexture"] >= 32
    /\ Len(glUnits) = m_loadedTextures

\* C11: in RenderScene every mesh draw call is preceded, since the previous
\* draw call or the start of RenderScene, by a SetTransformations call, a
\* SetShaderTexture or SetShaderColor call, a SetShaderMaterial call and a
\* SetTextureUVScale call, so that no draw uses state left by an earlier object.
C11_DrawFullySpecified ==
    (At("DrawMesh") /\ pc >= RenderStart) =>
        /\ "SetTransformations" \in since
        /\ "SetShaderTexture" \in since \/ "SetShaderColor" \in since
        /\ "SetShaderMaterial" \in since
        /\ "SetTextureUVScale" \in since

---------------------------------------------------------------------------
(* The shader-state operations driven by any caller *)

\* arguments a caller may pass to SetTransformations: whole units and quarter
\* turns, <<scaleXYZ, X, Y, Z rotation in degrees, positionXYZ>>
Transforms ==
    { << <<1000000, 1000000, 1000000>>, 0, 0, 0, <<5000000, 0, 0>> >>,
      << <<2000000, 1000000, 3000000>>, 90000000, 0, 0, <<1000000, 2000000, 3000000>> >>,
      << <<2000000, 1000000, 3000000>>, 0, 90000000, 90000000, <<0, 0, 0>> >>,
      << <<1000000, 2000000, 3000000>>, 90000000, 180000000, 270000000, <<-1000000, 4000000, 2000000>> >>,
      << <<1000000, 1000000, 1000000>>, 0, 0, 90000000, <<0, 3000000, 0>> >> }

UVScales == { <<8000000, 8000000>>, <<2000000, 2000000>> }

CallSetTransformations ==
    \E t \in Transforms : SetTransformations(t[1], t[2], t[3], t[4], t[5]) /\ Unbounded

CallSetTextureUVScale ==
    \E uv \in UVScales : SetTextureUVScale(uv[1], uv[2]) /\ Unbounded

CallSetupSceneLights == SetupSceneLights /\ Unbounded

StateDefineObjectMaterials ==
    /\ budget["DefineObjectMaterials"] < MaxLoads
    /\ DefineObjectMaterials
    /\ Free("DefineObjectMaterials")

StateLoadSceneTextures ==
    /\ budget["LoadSceneTextures"] < MaxLoads
    /\ LoadSceneTextures
    /\ Free("LoadSceneTextures")

StateNext ==
    \/ StateDefineObjectMaterials
    \/ StateLoadSceneTextures
    \/ CallSetTransformations
    \/ CallSetShaderColor
    \/ CallSetShaderTexture
    \/ CallSetTextureUVScale
    \/ CallSetShaderMaterial
    \/ CallSetupSceneLights

InitState == Init /\ disk = DiskOf({}, {})

SpecState == InitState /\ [][StateNext]_vars

IsSetupSceneLightsStep == SetupSceneLights /\ Unbounded

Corners == { <<x, 6000000, z>> : x \in {12000000, -12000000}, z \in {12000000, -12000000} }

\* C12: when SetupSceneLights returns, all six parameters of each of the light
\* slots 0..3 have been pushed, the four positions are the four distinct
\* corners (+-12, 6, +-12), slot 3 alone has a non-zero specular colour and
\* intensity and the larger focal strength (25 against 3), slots 0..2 have
\* zero specular colour and intensity, and bUseLighting is true.
C12_LightsConfigured ==
    [][ (IsSetupSceneLightsStep /\ ~crashed') =>
          /\ LightUniforms \subseteq pushed'
          /\ { shader'[LightName(i, "position")] : i \in 0..3 } = Corners
          /\ \A i \in 0..2 :
                /\ shader'[LightName(i, "specularColor")] = <<0, 0, 0>>
                /\ shader'[LightName(i, "specularIntensity")] = 0
                /\ shader'[LightName(i, "focalStrength")] = 3000000
          /\ \A c \in 1..3 : shader'[LightName(3, "specularColor")][c] # 0
          /\ shader'[LightName(3, "specularIntensity")] # 0
          /\ shader'[LightName(3, "focalStrength")] = 25000000
          /\ g_UseLightingName \in pushed'
          /\ shader'[g_UseLightingName] = TRUE ]_vars

C12_Witness ==
    /\ ~crashed
    /\ LightUniforms \subseteq pushed
    /\ shader[g_UseLightingName] = TRUE
    /\ shader[LightName(3, "focalStrength")] = 25000000
    /\ shader[LightName(0, "focalStrength")] = 3000000
    /\ Cardinality({ shader[LightName(i, "position")] : i \in 0..3 }) = 4

---------------------------------------------------------------------------
(* The value of the model matrix.  The uniform holds the factors of the
   product in the order the code multiplies them; Product evaluates it in
   exact arithmetic for arguments in whole units and quarter turns. *)

Units(x) == x \div 1000000

\* cos and sin of a quarter-turn angle given in degrees
Quarter(degrees) == (Units(degrees) \div 90) % 4
Cos(degrees) == <<1, 0, -1, 0>>[Quarter(degrees) + 1]
Sin(degrees) == <<0, 1, 0, -1>>[Quarter(degrees) + 1]

\* glm::scale(v), glm::rotate(angle, axis), glm::translate(v) as rows of a 4x4 matrix
FactorMatrix(f) ==
    CASE f.kind = "scale" ->
            << <<Units(f.value[1]), 0, 0, 0>>,
               <<0, Units(f.value[2]), 0, 0>>,
               <<0, 0, Units(f.value[3]), 0>>,
               <<0, 0, 0, 1>> >>
      [] f.kind = "rotateX" ->
            << <<1, 0, 0, 0>>,
               <<0, Cos(f.value), -Sin(f.value), 0>>,
               <<0, Sin(f.value), Cos(f.value), 0>>,
               <<0, 0, 0, 1>> >>
      [] f.kind = "rotateY" ->
            << <<Cos(f.value), 0, Sin(f.value), 0>>,
               <<0, 1, 0, 0>>,
               <<-Sin(f.value), 0, Cos(f.value), 0>>,
               <<0, 0, 0, 1>> >>
      [] f.kind = "rotateZ" ->
            << <<Cos(f.value), -Sin(f.value), 0, 0>>,
               <<Sin(f.value), Cos(f.value), 0, 0>>,
               <<0, 0, 1, 0>>,
               <<0, 0, 0, 1>> >>
      [] f.kind = "translate" ->
            << <<1, 0, 0, Units(f.value[1])>>,
               <<0, 1, 0, Units(f.value[2])>>,
               <<0, 0, 1, Units(f.value[3])>>,
               <<0, 0, 0, 1>> >>

IdentityMatrix ==
    << <<1, 0, 0, 0>>, <<0, 1, 0, 0>>, <<0, 0, 1, 0>>, <<0, 0, 0, 1>> >>

\* glm::mat4 operator*
Dot(A, B, i, j) ==
    A[i][1] * B[1][j] + A[i][2] * B[2][j] + A[i][3] * B[3][j] + A[i][4] * B[4][j]

MulRow(A, B, i) == <<Dot(A, B, i, 1), Dot(A, B, i, 2), Dot(A, B, i, 3), Dot(A, B, i, 4)>>

Mul(A, B) == <<MulRow(A, B, 1), MulRow(A, B, 2), MulRow(A, B, 3), MulRow(A, B, 4)>>

RECURSIVE Product(_)
Product(factors) ==
    IF factors = << >> THEN IdentityMatrix
    ELSE Mul(FactorMatrix(Head(factors)), Product(Tail(factors)))

\* the image of the point p under the matrix M
ApplyRow(M, p, i) == M[i][1] * p[1] + M[i][2] * p[2] + M[i][3] * p[3] + M[i][4]

Apply(M, p) == <<ApplyRow(M, p, 1), ApplyRow(M, p, 2), ApplyRow(M, p, 3)>>

\* the five transformations as maps on points
Scaled(s, p) == <<Units(s[1]) * p[1], Units(s[2]) * p[2], Units(s[3]) * p[3]>>
RotatedX(d, p) == <<p[1], Cos(d) * p[2] - Sin(d) * p[3], Sin(d) * p[2] + Cos(d) * p[3]>>
RotatedY(d, p) == <<Cos(d) * p[1] + Sin(d) * p[3], p[2], Cos(d) * p[3] - Sin(d) * p[1]>>
RotatedZ(d, p) == <<Cos(d) * p[1] - Sin(d) * p[2], Sin(d) * p[1] + Cos(d) * p[2], p[3]>>
Translated(t, p) == <<p[1] + Units(t[1]), p[2] + Units(t[2]), p[3] + Units(t[3])>>

\* scale first, then the rotations about Z, Y and X, then the translation
Composed(t, p) ==
    Translated(t[5], RotatedX(t[2], RotatedY(t[3], RotatedZ(t[4], Scaled(t[1], p)))))

\* the origin, the three unit points and a point off every axis
Points == { <<0, 0, 0>>, <<1, 0, 0>>, <<0, 1, 0>>, <<0, 0, 1>>, <<1, 2, 3>> }

IsSetTransformationsStep(t) == SetTransformations(t[1], t[2], t[3], t[4], t[5]) /\ Unbounded

\* C13: with a shader manager attached, SetTransformations pushes to "model"
\* the matrix translate(position) * rotateX * rotateY * rotateZ * scale, in
\* that order: it maps every point to the translated, X-, Y- and Z-rotated,
\* scaled point (scale applied first, translation last); with scale (1,1,1)
\* and rotation (0,0,0) it maps the origin to position.
C13_ModelMatrix ==
    [][ \A t \in Transforms :
          (m_pShaderManager = "attached" /\ IsSetTransformationsStep(t)) =>
              \A M \in {Product(shader'[g_ModelName])} :
                  /\ g_ModelName \in pushed'
                  /\ M = Mul(FactorMatrix(Factor("translate", t[5])),
                          Mul(FactorMatrix(Factor("rotateX", t[2])),
                          Mul(FactorMatrix(Factor("rotateY", t[3])),
                          Mul(FactorMatrix(Factor("rotateZ", t[4])),
                              FactorMatrix(Factor("scale", t[1]))))))
                  /\ \A p \in Points : Apply(M, p) = Composed(t, p)
                  /\ (t[1] = <<1000000, 1000000, 1000000>> /\ t[2] = 0 /\ t[3] = 0 /\ t[4] = 0)
                        => Apply(M, <<0, 0, 0>>) = <<Units(t[5][1]), Units(t[5][2]), Units(t[5][3])>> ]_vars

\* a pushed product whose value depends on the order of its factors
C13_Witness ==
    /\ g_ModelName \in pushed
    /\ Len(shader[g_ModelName]) = 5
    /\ LET factors == shader[g_ModelName]
           reversed == <<factors[5], factors[4], factors[3], factors[2], factors[1]>>
       IN  /\ Product(factors) # Product(reversed)
           /\ Apply(Product(factors), <<0, 0, 0>>) = <<-1, 4, 2>>
           /\ Apply(Product(factors), <<1, 2, 3>>) # Apply(Product(reversed), <<1, 2, 3>>)

IsShaderStateStep ==
    \/ CallSetTransformations
    \/ CallSetShaderColor
    \/ CallSetShaderTexture
    \/ CallSetTextureUVScale
    \/ CallSetShaderMaterial
    \/ CallSetupSceneLights

\* C14: while m_pShaderManager is NULL, each of SetTransformations,
\* SetShaderColor, SetShaderTexture, SetTextureUVScale, SetShaderMaterial and
\* SetupSceneLights pushes no uniform and does not dereference the null
\* shader manager, whatever the registries hold.
C14_NullManagerNoOp ==
    [][ (m_pShaderManager = "NULL" /\ IsShaderStateStep) =>
          /\ shader' = shader
          /\ pushed' = pushed
          /\ ~crashed' ]_vars

=============================================================================
